---- MODULE Spec2Model ----
(***************************************************************************)
(* A model of ghq's command layer (commands.go): the get, list, look,     *)
(* starred and pocket commands, their use of the resolver, the local path  *)
(* mapper, the walker/matcher and the VCS driver.                          *)
(*                                                                         *)
(* Strings are sequences of one-character strings, so that parsing,       *)
(* splitting, joining and substring search are computed, not assumed.      *)
(***************************************************************************)
EXTENDS Integers, Sequences, FiniteSets, TLC

(***************************************************************************)
(* Bounds of the model.                                                    *)
(***************************************************************************)
MaxRefLen == 3
MaxRuns == 2
MaxRepos == 3
MaxQueryLen == 3
MaxItems == 2
MaxPages == 2

(***************************************************************************)
(* Strings.                                                                *)
(***************************************************************************)
Letters == {"a","b","c","d","e","f","g","h","i","j","k","l","m",
            "n","o","p","q","r","s","t","u","v","w","x","y","z"}

SchemePunct == {"0","1","2","3","4","5","6","7","8","9","+","-","."}

RECURSIVE StringsUpTo(_, _)
StringsUpTo(alphabet, n) ==
  IF n = 0 THEN {<<>>}
  ELSE LET shorter == StringsUpTo(alphabet, n - 1)
       IN shorter \cup {Append(s, c) : s \in shorter, c \in alphabet}

HasPrefix(s, p) == Len(s) >= Len(p) /\ SubSeq(s, 1, Len(p)) = p

\* strings.Contains
Contains(s, sub) ==
  \E i \in 1..(Len(s) + 1) :
    i + Len(sub) - 1 <= Len(s) /\ SubSeq(s, i, i + Len(sub) - 1) = sub

\* strings.Index for a one-character separator; 0 when absent
RECURSIVE IndexFrom(_, _, _)
IndexFrom(s, c, i) ==
  IF i > Len(s) THEN 0
  ELSE IF s[i] = c THEN i
  ELSE IndexFrom(s, c, i + 1)

Index(s, c) == IndexFrom(s, c, 1)

\* strings.Split(s, sep) for a one-character separator: every piece, empty
\* pieces included
RECURSIVE StrSplit(_, _)
StrSplit(s, sep) ==
  LET i == Index(s, sep)
  IN IF i = 0 THEN <<s>>
     ELSE <<SubSeq(s, 1, i - 1)>> \o StrSplit(SubSeq(s, i + 1, Len(s)), sep)

\* strings.Join(parts, sep)
RECURSIVE StrJoin(_, _)
StrJoin(parts, sep) ==
  IF Len(parts) = 0 THEN <<>>
  ELSE IF Len(parts) = 1 THEN parts[1]
  ELSE parts[1] \o sep \o StrJoin(Tail(parts), sep)

\* path.Join: empty elements are dropped, the rest joined by "/"
\* (no element of the model holds ".", ".." or a doubled separator)
RECURSIVE DropEmpty(_)
DropEmpty(parts) ==
  IF Len(parts) = 0 THEN <<>>
  ELSE IF parts[1] = <<>> THEN DropEmpty(Tail(parts))
  ELSE <<parts[1]>> \o DropEmpty(Tail(parts))

PathJoin(parts) == StrJoin(DropEmpty(parts), <<"/">>)

(***************************************************************************)
(* net/url.Parse, as DoGet, DoStarred and DoPocket call it.                *)
(***************************************************************************)
\* url.split(s, c, cutc)
UrlSplit(s, c, cutc) ==
  LET i == Index(s, c)
  IN IF i = 0 THEN <<s, <<>>>>
     ELSE IF cutc THEN <<SubSeq(s, 1, i - 1), SubSeq(s, i + 1, Len(s))>>
     ELSE <<SubSeq(s, 1, i - 1), SubSeq(s, i, Len(s))>>

\* url.getscheme: [scheme, rest, err]
RECURSIVE GetSchemeFrom(_, _)
GetSchemeFrom(rawurl, i) ==
  IF i > Len(rawurl) THEN [scheme |-> <<>>, rest |-> rawurl, err |-> FALSE]
  ELSE IF rawurl[i] \in Letters THEN GetSchemeFrom(rawurl, i + 1)
  ELSE IF rawurl[i] \in SchemePunct THEN
         IF i = 1 THEN [scheme |-> <<>>, rest |-> rawurl, err |-> FALSE]
         ELSE GetSchemeFrom(rawurl, i + 1)
  ELSE IF rawurl[i] = ":" THEN
         IF i = 1 THEN [scheme |-> <<>>, rest |-> <<>>, err |-> TRUE]
         ELSE [scheme |-> SubSeq(rawurl, 1, i - 1),
               rest |-> SubSeq(rawurl, i + 1, Len(rawurl)), err |-> FALSE]
  ELSE [scheme |-> <<>>, rest |-> rawurl, err |-> FALSE]

GetScheme(rawurl) == GetSchemeFrom(rawurl, 1)

NoURL == [Scheme |-> <<>>, Opaque |-> <<>>, Host |-> <<>>, Path |-> <<>>,
          RawQuery |-> <<>>, Fragment |-> <<>>]

\* url.Parse: [err, url]. The model's strings hold no upper-case letter, no
\* "%" and no "@", so lower-casing, unescaping and user-info parsing leave
\* them as they are.
UrlParse(rawurl) ==
  LET fs == UrlSplit(rawurl, "#", TRUE)
      u == fs[1]
      frag == fs[2]
      gs == GetScheme(u)
      qs == UrlSplit(gs.rest, "?", TRUE)
      rest == qs[1]
      query == qs[2]
  IN IF u = <<"*">> THEN
       [err |-> FALSE, url |-> [NoURL EXCEPT !.Path = u, !.Fragment = frag]]
     ELSE IF gs.err THEN [err |-> TRUE, url |-> NoURL]
     ELSE IF ~HasPrefix(rest, <<"/">>) /\ gs.scheme # <<>> THEN
       [err |-> FALSE,
        url |-> [NoURL EXCEPT !.Scheme = gs.scheme, !.Opaque = rest,
                              !.RawQuery = query, !.Fragment = frag]]
     ELSE IF (gs.scheme # <<>> \/ ~HasPrefix(rest, <<"/","/","/">>))
             /\ HasPrefix(rest, <<"/","/">>) THEN
       LET as == UrlSplit(SubSeq(rest, 3, Len(rest)), "/", FALSE)
       IN [err |-> FALSE,
           url |-> [NoURL EXCEPT !.Scheme = gs.scheme, !.Host = as[1],
                                 !.Path = as[2], !.RawQuery = query,
                                 !.Fragment = frag]]
     ELSE
       [err |-> FALSE,
        url |-> [NoURL EXCEPT !.Scheme = gs.scheme, !.Path = rest,
                              !.RawQuery = query, !.Fragment = frag]]

\* (*URL).IsAbs
IsAbs(url) == url.Scheme # <<>>

(***************************************************************************)
(* Names the program fixes or the configuration supplies.                  *)
(***************************************************************************)
Https == <<"h","t","t","p","s">>
GitHubHost == <<"g","i","t","h","u","b",".","c","o","m">>

\* the primary local repository root (ghq.root)
PrimaryRoot == <<"r">>
OtherRoot == <<"s">>

\* the hosting table of the resolver
KnownHosts == {GitHubHost}

(***************************************************************************)
(* The state of one ghq process and of the world around it.                *)
(***************************************************************************)
VARIABLES
  cmd,         \* the command run: "get", "list", "look", "starred", "pocket"
  argFirst,    \* c.Args().First() / c.Args().Get(0)
  flags,       \* c.Bool("update"), "exact", "full-path", "unique"
  shellEnv,    \* os.Getenv("SHELL")
  localRepos,  \* what walkLocalRepositories discovers, in walk order
  existing,    \* local paths that exist
  statErr,     \* local paths on which os.Stat fails otherwise
  numPages,    \* pages the starred source exposes
  pc,          \* "start", "page", "items", "done"
  status,      \* "running", "ok", "exit1", "panic"
  run,         \* which invocation of the command this is
  calls,       \* VCS driver invocations so far
  log,         \* utils.Log lines so far
  out,         \* fmt.Println lines so far
  handed,      \* URLs handed to NewRemoteRepository so far
  built,       \* the local repositories getRemoteRepository built so far
  chdirTo,     \* os.Chdir target of look, <<>> when none
  execd,       \* the shell look exec'ed, <<>> when none
  page,        \* starred: the page requested last
  lastPage,    \* starred: res.LastPage of that response
  items,       \* the batch items in hand
  idx,         \* how many of them were handled
  handled      \* batch items handled so far: <<page, index, outcome>>

vars == <<cmd, argFirst, flags, shellEnv, localRepos, existing, statErr,
          numPages, pc, status, run, calls, log, out, handed, built, chdirTo,
          execd, page, lastPage, items, idx, handled>>

NoFlags == [update |-> FALSE, exact |-> FALSE, fullPath |-> FALSE,
            unique |-> FALSE]

(***************************************************************************)
(* Resolver and local path mapper, as commands.go uses them.               *)
(***************************************************************************)
\* NewRemoteRepository(url): a host outside the hosting table is an error
NewRemoteRepository(url) ==
  [err |-> url.Host \notin KnownHosts, remote |-> [url |-> url]]

\* remote.IsValid(): the path is /owner/project, both segments non-empty
IsValid(remote) ==
  LET segs == StrSplit(remote.url.Path, "/")
  IN Len(segs) = 3 /\ segs[1] = <<>> /\ segs[2] # <<>> /\ segs[3] # <<>>

\* the descriptor of a valid remote
Descriptor(remote) ==
  LET segs == StrSplit(remote.url.Path, "/")
  IN [host |-> remote.url.Host, owner |-> segs[2], project |-> segs[3]]

\* remote.URL(): scheme://host/owner/project
RemoteURL(remote) ==
  LET d == Descriptor(remote)
  IN [Scheme |-> remote.url.Scheme, Host |-> d.host,
      Path |-> <<"/">> \o d.owner \o <<"/">> \o d.project]

\* LocalRepositoryFromPathParts(pathParts): under the primary root
LocalRepositoryFromPathParts(pathParts) ==
  [root |-> PrimaryRoot, PathParts |-> pathParts,
   FullPath |-> PathJoin(<<PrimaryRoot>> \o pathParts),
   RelPath |-> PathJoin(pathParts)]

\* a repository the walker discovered at root/relPath
LocalRepositoryFromFullPath(root, relPath) ==
  [root |-> root, PathParts |-> StrSplit(relPath, "/"),
   FullPath |-> PathJoin(<<root, relPath>>), RelPath |-> relPath]

\* VCS driver Clone: the destination exists afterwards unless it could not
\* be created
CloneEffect(ex, path, result) ==
  IF result = "IOFailure" THEN ex ELSE ex \cup {path}

CloneResults == {"ok", "CloneFailed", "IOFailure"}

(***************************************************************************)
(* getRemoteRepository                                                     *)
(***************************************************************************)
\* lines 131-134
GetPathParts(remoteURL) ==
  <<remoteURL.Host>> \o StrSplit(remoteURL.Path, "/")

\* a variant of StatPath that takes every stat error for "does not exist"
StatPath_ErrorIsNew(path, ex, se) ==
  IF path \notin ex \/ path \in se THEN "new"
  ELSE "old"

\* lines 140-147: "new", "old", or "panic" (utils.PanicIf of another error)
StatPath(path, ex, se) ==
  IF path \in se THEN "panic"
  ELSE IF path \notin ex THEN "new"
  ELSE "old"

\* variants of VcsAction: the update flag read inverted; an existing path
\* cloned again
VcsAction_UpdateUnasked(newPath, doUpdate) ==
  IF newPath THEN "clone"
  ELSE IF ~doUpdate THEN "update"
  ELSE "exists"

VcsAction_Reclone(newPath, doUpdate) ==
  IF newPath \/ ~doUpdate THEN "clone"
  ELSE "update"

\* lines 149-159
VcsAction(newPath, doUpdate) ==
  IF newPath THEN "clone"
  ELSE IF doUpdate THEN "update"
  ELSE "exists"

\* the whole function: what it appends to calls, log and built, the paths
\* that exist afterwards, and whether it panicked
getRemoteRepository(remote, doUpdate, ex, se, cloneResult, tag) ==
  LET remoteURL == RemoteURL(remote)
      pathParts == GetPathParts(remoteURL)
      local == LocalRepositoryFromPathParts(pathParts)
      path == local.FullPath
      st == StatPath(path, ex, se)
      act == VcsAction(st = "new", doUpdate)
  IN IF st = "panic" THEN
       [panic |-> TRUE, calls |-> <<>>, log |-> <<>>, existing |-> ex,
        built |-> <<local>>]
     ELSE IF act = "clone" THEN
       [panic |-> FALSE,
        calls |-> <<[tag |-> tag, op |-> "clone", path |-> path]>>,
        log |-> <<[kind |-> "clone", arg |-> path]>>,
        existing |-> CloneEffect(ex, path, cloneResult),
        built |-> <<local>>]
     ELSE IF act = "update" THEN
       [panic |-> FALSE,
        calls |-> <<[tag |-> tag, op |-> "update", path |-> path]>>,
        log |-> <<[kind |-> "update", arg |-> path]>>,
        existing |-> ex, built |-> <<local>>]
     ELSE
       [panic |-> FALSE, calls |-> <<>>,
        log |-> <<[kind |-> "exists", arg |-> path]>>,
        existing |-> ex, built |-> <<local>>]

(***************************************************************************)
(* DoGet                                                                   *)
(***************************************************************************)
\* lines 111-117; url.Path[0] of an empty path is a run-time panic
DefaultToGitHub(url) ==
  IF IsAbs(url) THEN [panic |-> FALSE, url |-> url]
  ELSE IF Len(url.Path) = 0 THEN
    [panic |-> TRUE, url |-> [url EXCEPT !.Scheme = Https, !.Host = GitHubHost]]
  ELSE
    [panic |-> FALSE,
     url |-> [url EXCEPT !.Scheme = Https, !.Host = GitHubHost,
                         !.Path = IF url.Path[1] # "/" THEN <<"/">> \o @ ELSE @]]

\* what one command run leaves behind when it ends before any VCS call
Ended(st, logLines, urls) ==
  [status |-> st, calls |-> <<>>, log |-> logLines, existing |-> existing,
   handed |-> urls, built |-> <<>>]

\* lines 99-128
GetOutcome(argUrl, doUpdate, cloneResult) ==
  IF argUrl = <<>> THEN Ended("exit1", <<>>, <<>>)
  ELSE
    LET parsed == UrlParse(argUrl)
    IN IF parsed.err THEN
         Ended("exit1", <<[kind |-> "error", arg |-> argUrl]>>, <<>>)
       ELSE
         LET def == DefaultToGitHub(parsed.url)
             url == def.url
             res == NewRemoteRepository(url)
         IN IF def.panic THEN Ended("panic", <<>>, <<>>)
            ELSE IF res.err THEN
              Ended("exit1", <<[kind |-> "error", arg |-> url.Host]>>, <<url>>)
            ELSE IF ~IsValid(res.remote) THEN
              Ended("exit1", <<[kind |-> "error", arg |-> url.Path]>>, <<url>>)
            ELSE
              LET g == getRemoteRepository(res.remote, doUpdate, existing,
                                           statErr, cloneResult, run)
              IN [status |-> IF g.panic THEN "panic" ELSE "ok",
                  calls |-> g.calls, log |-> g.log, existing |-> g.existing,
                  handed |-> <<url>>, built |-> g.built]

DoGet ==
  /\ cmd = "get"
  /\ pc = "start"
  /\ \E cloneResult \in CloneResults :
       \E o \in {GetOutcome(argFirst, flags.update, cloneResult)} :
          /\ status' = o.status
          /\ calls' = calls \o o.calls
          /\ log' = log \o o.log
          /\ existing' = o.existing
          /\ handed' = handed \o o.handed
          /\ built' = built \o o.built
  /\ pc' = "done"
  /\ UNCHANGED <<cmd, argFirst, flags, shellEnv, localRepos, statErr,
                 numPages, run, out, chdirTo, execd, page, lastPage, items,
                 idx, handled>>

\* the user runs the same get command again
Rerun ==
  /\ cmd = "get"
  /\ pc = "done"
  /\ run < MaxRuns
  /\ run' = run + 1
  /\ pc' = "start"
  /\ status' = "running"
  /\ UNCHANGED <<cmd, argFirst, flags, shellEnv, localRepos, existing,
                 statErr, numPages, calls, log, out, handed, built, chdirTo,
                 execd, page, lastPage, items, idx, handled>>

(***************************************************************************)
(* Inputs of get.                                                          *)
(***************************************************************************)
RefAlphabet == {"a", "b", "/", ":", "?", "#"}

AbsRef == Https \o <<":","/","/">> \o GitHubHost \o <<"/","a","/","b">>
AbsOtherHostRef == Https \o <<":","/","/","x","/","a","/","b">>
AbsNoProjectRef == Https \o <<":","/","/">> \o GitHubHost \o <<"/","a">>

GetRefs == StringsUpTo(RefAlphabet, MaxRefLen)
             \cup {AbsRef, AbsOtherHostRef, AbsNoProjectRef}

PathAB == PrimaryRoot \o <<"/">> \o GitHubHost \o <<"/","a","/","b">>
PathBA == PrimaryRoot \o <<"/">> \o GitHubHost \o <<"/","b","/","a">>

InitCommon ==
  /\ shellEnv = <<>>
  /\ localRepos = <<>>
  /\ numPages = 0
  /\ pc = "start"
  /\ status = "running"
  /\ run = 1
  /\ calls = <<>>
  /\ log = <<>>
  /\ out = <<>>
  /\ handed = <<>>
  /\ built = <<>>
  /\ chdirTo = <<>>
  /\ execd = <<>>
  /\ page = 0
  /\ lastPage = 0
  /\ items = <<>>
  /\ idx = 0
  /\ handled = <<>>

InitGet ==
  /\ cmd = "get"
  /\ argFirst \in GetRefs
  /\ flags \in {[NoFlags EXCEPT !.update = u] : u \in BOOLEAN}
  /\ existing \in SUBSET {PathAB}
  /\ statErr \in SUBSET {PathAB}
  /\ InitCommon

NextGet == DoGet \/ Rerun

SpecGet == InitGet /\ [][NextGet]_vars

(***************************************************************************)
(* Properties of get.                                                      *)
(***************************************************************************)
\* the calls and the local repository one step of get added
NewCalls == SubSeq(calls', Len(calls) + 1, Len(calls'))
GetStepped == cmd = "get" /\ pc = "start" /\ pc' = "done"
\* a step in which getRemoteRepository ran, under any command
GetReachedStat == Len(built') = Len(built) + 1
StatTarget == built'[Len(built')].FullPath

\* C1: getRemoteRepository clones (and never updates) when the local path
\* does not exist, updates (and never clones) when it exists and the update
\* flag is set, and otherwise invokes neither and changes nothing.
C1_CloneUpdateOrNothing ==
  [][GetReachedStat /\ StatTarget \notin statErr =>
       /\ StatTarget \notin existing =>
            /\ Len(NewCalls) = 1
            /\ NewCalls[1].op = "clone"
            /\ NewCalls[1].path = StatTarget
       /\ StatTarget \in existing /\ flags.update =>
            /\ Len(NewCalls) = 1
            /\ NewCalls[1].op = "update"
            /\ NewCalls[1].path = StatTarget
            /\ existing' = existing
       /\ StatTarget \in existing /\ ~flags.update =>
            /\ NewCalls = <<>>
            /\ existing' = existing]_vars

\* a get -u that cloned, run again, updated
C1_Witness ==
  /\ cmd = "get" /\ pc = "done" /\ run = 2 /\ flags.update
  /\ Len(calls) = 2
  /\ calls[1].op = "clone" /\ calls[2].op = "update"
  /\ calls[1].path = calls[2].path

WithLeadingSlash(path) ==
  IF HasPrefix(path, <<"/">>) THEN path ELSE <<"/">> \o path

\* C3: a non-empty reference that is not an absolute URL reaches the
\* resolver as https://github.com/<path>; an absolute URL reaches it
\* unchanged.
C3_ShorthandIsGitHub ==
  (/\ cmd = "get" /\ pc = "done" /\ run = 1
   /\ argFirst # <<>> /\ ~UrlParse(argFirst).err)
  => LET u == UrlParse(argFirst).url
     IN /\ Len(handed) = 1
        /\ IsAbs(u) => handed[1] = u
        /\ ~IsAbs(u) =>
             /\ handed[1].Scheme = Https
             /\ handed[1].Host = GitHubHost
             /\ handed[1].Path = WithLeadingSlash(u.Path)

\* C8: the path parts getRemoteRepository builds for a valid descriptor are
\* exactly <<host, owner, project>>.
C8_PathPartsAreHostOwnerProject ==
  (cmd = "get" /\ pc = "done" /\ run = 1 /\ Len(built) = 1)
  => LET d == Descriptor([url |-> handed[1]])
     IN built[1].PathParts = <<d.host, d.owner, d.project>>

(***************************************************************************)
(* Walker and matcher, as DoList and DoLook use them.                      *)
(***************************************************************************)
\* repo.Subpaths(): the trailing slices of PathParts joined by "/", from
\* the shortest to the longest
Subpaths(repo) ==
  LET n == Len(repo.PathParts)
  IN [i \in 1..n |-> StrJoin(SubSeq(repo.PathParts, n - i + 1, n), <<"/">>)]

\* repo.Matches(pathQuery): the query is the whole relative path, or a
\* trailing subpath that occurs once among the repository's own subpaths
Matches(repo, pathQuery) ==
  LET sp == Subpaths(repo)
  IN \/ pathQuery = StrJoin(repo.PathParts, <<"/">>)
     \/ \E i \in 1..Len(sp) :
          /\ sp[i] = pathQuery
          /\ Cardinality({j \in 1..Len(sp) : sp[j] = pathQuery}) = 1

\* repo.NonHostPath(): the relative path without its host segment
NonHostPath(repo) == StrJoin(Tail(repo.PathParts), <<"/">>)

(***************************************************************************)
(* DoList                                                                  *)
(***************************************************************************)
\* a variant of filterFn that ignores the exact flag
filterFn_ExactIgnored(query, exact, repo) ==
  IF query = <<>> THEN TRUE
  ELSE Contains(NonHostPath(repo), query)

\* lines 168-181
filterFn(query, exact, repo) ==
  IF query = <<>> THEN TRUE
  ELSE IF exact THEN Matches(repo, query)
  ELSE Contains(NonHostPath(repo), query)

\* lines 183-191: the discovered repositories that pass the filter, in walk
\* order
RECURSIVE FilteredRepos(_, _, _)
FilteredRepos(discovered, query, exact) ==
  IF Len(discovered) = 0 THEN <<>>
  ELSE IF filterFn(query, exact, discovered[1]) THEN
    <<discovered[1]>> \o FilteredRepos(Tail(discovered), query, exact)
  ELSE FilteredRepos(Tail(discovered), query, exact)

\* lines 194-200: subpathCount[p] over the repositories given
subpathCount(repos, p) ==
  Cardinality({ij \in UNION {{<<i, j>> : j \in 1..Len(repos[i].PathParts)} :
                               i \in 1..Len(repos)} :
                 Subpaths(repos[ij[1]])[ij[2]] = p})

\* a variant of FirstUnique that does not ask for a count of one
RECURSIVE FirstUnique_AnyCount(_, _, _)
FirstUnique_AnyCount(repos, sp, i) ==
  IF i > Len(sp) THEN <<>>
  ELSE IF subpathCount(repos, sp[i]) >= 1 THEN <<sp[i]>>
  ELSE FirstUnique_AnyCount(repos, sp, i + 1)

\* lines 203-208: the first subpath that is counted once, as a sequence of
\* zero or one line
RECURSIVE FirstUnique(_, _, _)
FirstUnique(repos, sp, i) ==
  IF i > Len(sp) THEN <<>>
  ELSE IF subpathCount(repos, sp[i]) = 1 THEN <<sp[i]>>
  ELSE FirstUnique(repos, sp, i + 1)

\* lines 202-209
RECURSIVE UniqueLinesFrom(_, _)
UniqueLinesFrom(repos, k) ==
  IF k > Len(repos) THEN <<>>
  ELSE FirstUnique(repos, Subpaths(repos[k]), 1) \o UniqueLinesFrom(repos, k + 1)

\* lines 211-217
PlainLines(repos, printFullPaths) ==
  [k \in 1..Len(repos) |->
     IF printFullPaths THEN repos[k].FullPath ELSE repos[k].RelPath]

\* lines 162-219
DoList ==
  /\ cmd = "list"
  /\ pc = "start"
  /\ \E repos \in {FilteredRepos(localRepos, argFirst, flags.exact)} :
       out' = out \o (IF flags.unique THEN UniqueLinesFrom(repos, 1)
                       ELSE PlainLines(repos, flags.fullPath))
  /\ pc' = "done"
  /\ status' = "ok"
  /\ UNCHANGED <<cmd, argFirst, flags, shellEnv, localRepos, existing,
                 statErr, numPages, run, calls, log, handed, built, chdirTo,
                 execd, page, lastPage, items, idx, handled>>

(***************************************************************************)
(* DoLook                                                                  *)
(***************************************************************************)
\* a variant of reposFound that stops at the first match
reposFound_FirstOnly(discovered, name) ==
  LET hits == {i \in 1..Len(discovered) : Matches(discovered[i], name)}
  IN IF hits = {} THEN <<>>
     ELSE <<discovered[CHOOSE i \in hits : \A j \in hits : i <= j]>>

\* lines 229-234
RECURSIVE reposFound(_, _)
reposFound(discovered, name) ==
  IF Len(discovered) = 0 THEN <<>>
  ELSE IF Matches(discovered[1], name) THEN
    <<discovered[1]>> \o reposFound(Tail(discovered), name)
  ELSE reposFound(Tail(discovered), name)

DefaultShell == <<"/","b","i","n","/","s","h">>

\* lines 241-244
LookShell(env) == IF env = <<>> THEN DefaultShell ELSE env

\* lines 252-255
AmbiguousLog(found) ==
  <<[kind |-> "error", arg |-> <<>>]>> \o
  [k \in 1..Len(found) |->
     [kind |-> "error",
      arg |-> <<"-", " ">> \o StrJoin(found[k].PathParts, <<"/">>)]]

\* lines 221-257
DoLook ==
  /\ cmd = "look"
  /\ pc = "start"
  /\ pc' = "done"
  /\ IF argFirst = <<>> THEN
       /\ status' = "exit1"
       /\ UNCHANGED <<log, chdirTo, execd>>
     ELSE
       \E found \in {reposFound(localRepos, argFirst)} :
          IF Len(found) = 0 THEN
            /\ log' = log \o <<[kind |-> "error", arg |-> <<>>]>>
            /\ status' = "ok"
            /\ UNCHANGED <<chdirTo, execd>>
          ELSE IF Len(found) = 1 THEN
            \E chdirOk \in BOOLEAN :
              /\ chdirTo' = found[1].FullPath
              /\ execd' = IF chdirOk THEN LookShell(shellEnv) ELSE <<>>
              /\ status' = IF chdirOk THEN "ok" ELSE "panic"
              /\ UNCHANGED log
          ELSE
            /\ log' = log \o AmbiguousLog(found)
            /\ status' = "ok"
            /\ UNCHANGED <<chdirTo, execd>>
  /\ UNCHANGED <<cmd, argFirst, flags, shellEnv, localRepos, existing,
                 statErr, numPages, run, calls, out, handed, built, page,
                 lastPage, items, idx, handled>>

(***************************************************************************)
(* Inputs of list and look.                                                *)
(***************************************************************************)
RelAF == <<"h","/","a","/","f">>
RelBF == <<"h","/","b","/","f">>
RelFA == <<"h","/","f","/","a">>
RelBAF == <<"h","/","b","/","a","/","f">>

\* the directories the walker can find a repository in: three of the usual
\* depth, one nested deeper, and one that repeats a path under another root
RepoUniverse ==
  {LocalRepositoryFromFullPath(PrimaryRoot, RelAF),
   LocalRepositoryFromFullPath(PrimaryRoot, RelBF),
   LocalRepositoryFromFullPath(PrimaryRoot, RelFA),
   LocalRepositoryFromFullPath(PrimaryRoot, RelBAF),
   LocalRepositoryFromFullPath(OtherRoot, RelAF)}

\* a walk emits a directory once
Walks ==
  {w \in UNION {[1..n -> RepoUniverse] : n \in 0..MaxRepos} :
     \A i, j \in 1..Len(w) : w[i] = w[j] => i = j}

QueryAlphabet == {"a", "f", "/"}

Queries == StringsUpTo(QueryAlphabet, MaxQueryLen) \cup {RelAF, <<"b","/","f">>}

Shells == {<<>>, <<"z","s","h">>}

InitWalked ==
  /\ argFirst \in Queries
  /\ localRepos \in Walks
  /\ existing = {}
  /\ statErr = {}
  /\ numPages = 0
  /\ pc = "start"
  /\ status = "running"
  /\ run = 1
  /\ calls = <<>>
  /\ log = <<>>
  /\ out = <<>>
  /\ handed = <<>>
  /\ built = <<>>
  /\ chdirTo = <<>>
  /\ execd = <<>>
  /\ page = 0
  /\ lastPage = 0
  /\ items = <<>>
  /\ idx = 0
  /\ handled = <<>>

InitList ==
  /\ cmd = "list"
  /\ flags \in {[NoFlags EXCEPT !.exact = e, !.fullPath = p, !.unique = q] :
                  e \in BOOLEAN, p \in BOOLEAN, q \in BOOLEAN}
  /\ shellEnv = <<>>
  /\ InitWalked

NextList == DoList

SpecList == InitList /\ [][NextList]_vars

InitLook ==
  /\ cmd = "look"
  /\ flags = NoFlags
  /\ shellEnv \in Shells
  /\ InitWalked

NextLook == DoLook

SpecLook == InitLook /\ [][NextLook]_vars

(***************************************************************************)
(* Properties of list.                                                     *)
(***************************************************************************)
\* the filter the list command is said to apply to a repository
ListSelects(repo) ==
  \/ argFirst = <<>>
  \/ argFirst # <<>> /\ flags.exact /\ Matches(repo, argFirst)
  \/ argFirst # <<>> /\ ~flags.exact /\ Contains(NonHostPath(repo), argFirst)

ListedIndices == {i \in 1..Len(localRepos) : ListSelects(localRepos[i])}

\* the order-preserving numberings of the listed repositories
ListedOrders ==
  {f \in [1..Cardinality(ListedIndices) -> ListedIndices] :
     \A k, l \in 1..Cardinality(ListedIndices) : k < l => f[k] < f[l]}

\* how often p occurs among the subpaths of the repositories at `among`
\* (a subpath of k segments is at least k characters long)
OccurrencesAmong(among, p) ==
  Cardinality({ij \in among \X (1..Len(p)) :
                 /\ ij[2] <= Len(localRepos[ij[1]].PathParts)
                 /\ Subpaths(localRepos[ij[1]])[ij[2]] = p})

\* the shortest subpath of repo that occurs once among `among`, if any
ShortestUniqueAmong(among, repo) ==
  LET sp == Subpaths(repo)
      once == {i \in 1..Len(sp) : OccurrencesAmong(among, sp[i]) = 1}
  IN IF once = {} THEN <<>>
     ELSE <<sp[CHOOSE i \in once : \A j \in once : i <= j]>>

RECURSIVE Flatten(_)
Flatten(ss) == IF Len(ss) = 0 THEN <<>> ELSE ss[1] \o Flatten(Tail(ss))

\* the lines of unique mode when uniqueness is counted among `among`
UniqueOutput(among) ==
  \E f \in ListedOrders :
    out = Flatten([k \in 1..Cardinality(ListedIndices) |->
                     ShortestUniqueAmong(among, localRepos[f[k]])])

\* C4 as stated: in unique mode each listed repository prints its shortest
\* subpath that occurs once among the subpaths of all discovered
\* repositories, and nothing when it has none.
C4_UniqueAmongDiscovered ==
  (cmd = "list" /\ pc = "done" /\ flags.unique)
  => UniqueOutput(1..Len(localRepos))

\* C4, amended: in unique mode each listed repository prints its shortest
\* subpath that occurs once among the subpaths of the listed repositories
\* (those that pass the filter), and nothing when it has none.
C4_UniqueAmongListed ==
  (cmd = "list" /\ pc = "done" /\ flags.unique)
  => UniqueOutput(ListedIndices)

\* h/a/f and h/b/f were listed in unique mode as a/f and b/f
C4_Witness ==
  /\ cmd = "list" /\ pc = "done" /\ flags.unique /\ argFirst = <<"f">>
  /\ Len(localRepos) = 2
  /\ localRepos[1].RelPath = RelAF /\ localRepos[2].RelPath = RelBF
  /\ out = << <<"a","/","f">>, <<"b","/","f">> >>

\* C7: list keeps, in walk order and once each, every repository with no
\* query, the repositories that Matches(query) with a query and the exact
\* flag, and those whose path without the host contains the query otherwise.
C7_ListFilter ==
  (cmd = "list" /\ pc = "done" /\ ~flags.unique)
  => \E f \in ListedOrders :
       out = [k \in 1..Cardinality(ListedIndices) |->
                IF flags.fullPath THEN localRepos[f[k]].FullPath
                ELSE localRepos[f[k]].RelPath]

\* of three repositories the query "a" with the exact flag kept only h/f/a
C7_Witness ==
  /\ cmd = "list" /\ pc = "done" /\ ~flags.unique /\ ~flags.fullPath
  /\ flags.exact /\ argFirst = <<"a">>
  /\ Len(localRepos) = 3
  /\ \E i \in 1..3 : Contains(NonHostPath(localRepos[i]), argFirst)
                     /\ ~Matches(localRepos[i], argFirst)
  /\ out = <<RelFA>>

(***************************************************************************)
(* Properties of look.                                                     *)
(***************************************************************************)
LookMatches == {i \in 1..Len(localRepos) : Matches(localRepos[i], argFirst)}

\* the repositories that match, in walk order, each shown by `show`
LookListing(show(_)) ==
  \E f \in [1..Cardinality(LookMatches) -> LookMatches] :
    /\ \A k, l \in 1..Cardinality(LookMatches) : k < l => f[k] < f[l]
    /\ Len(log) = Cardinality(LookMatches) + 1
    /\ \A k \in 1..Cardinality(LookMatches) :
         /\ log[k + 1].kind = "error"
         /\ log[k + 1].arg = <<"-", " ">> \o show(localRepos[f[k]])

ShowFullPath(repo) == repo.FullPath
ShowPathParts(repo) == StrJoin(repo.PathParts, <<"/">>)

LookOutcomes(show(_)) ==
  (cmd = "look" /\ pc = "done" /\ argFirst # <<>>)
  => /\ Cardinality(LookMatches) = 0 =>
          /\ status = "ok"
          /\ Len(log) = 1 /\ log[1].kind = "error"
          /\ chdirTo = <<>> /\ execd = <<>>
     /\ Cardinality(LookMatches) = 1 =>
          /\ \E i \in LookMatches : chdirTo = localRepos[i].FullPath
          /\ status = "ok" => execd = LookShell(shellEnv)
          /\ log = <<>>
     /\ Cardinality(LookMatches) > 1 =>
          /\ status = "ok"
          /\ LookListing(show)
          /\ chdirTo = <<>> /\ execd = <<>>

\* C5 as stated: look reports zero matches without failing, enters the one
\* match, and reports several matches without failing, listing the full
\* path of every candidate and entering none.
C5_LookListsFullPaths == LookOutcomes(ShowFullPath)

\* C5, amended: as stated, except that several matches are listed by their
\* path parts joined by "/" (host/owner/project, without the root).
C5_LookListsPathParts == LookOutcomes(ShowPathParts)

\* two repositories named f made the look ambiguous
C5_Witness ==
  /\ cmd = "look" /\ pc = "done" /\ argFirst = <<"f">>
  /\ Cardinality(LookMatches) = 2
  /\ Len(log) = 3
  /\ chdirTo = <<>>

(***************************************************************************)
(* Inputs of the batch commands.                                           *)
(***************************************************************************)
AbsRefBA == Https \o <<":","/","/">> \o GitHubHost \o <<"/","b","/","a">>
UnparseableRef == <<":","a">>

\* references a feed can hold: two repositories, and one reference each that
\* does not parse, that the resolver rejects, and that is not valid
ItemRefs == {AbsRef, AbsRefBA, UnparseableRef, AbsOtherHostRef, AbsNoProjectRef}

\* the lists RetrieveGitHubEntries can return
PocketLists == UNION {[1..n -> ItemRefs] : n \in 0..MaxItems}

\* the pages ListStarred can return
PageContents == {<<>>, <<AbsRef>>, <<AbsNoProjectRef, AbsRefBA>>}

(***************************************************************************)
(* The batch commands: DoStarred and DoPocket.                             *)
(***************************************************************************)
\* a variant of ItemOutcome in which an invalid repository ends the process
ItemOutcome_DieOnInvalid(ref, doUpdate, cloneResult, tag) ==
  LET parsed == UrlParse(ref)
      res == NewRemoteRepository(parsed.url)
      quiet == [calls |-> <<>>, existing |-> existing, built |-> <<>>]
  IN IF parsed.err THEN
       [outcome |-> "unparseable", log |-> <<[kind |-> "error", arg |-> ref]>>,
        handed |-> <<>>] @@ quiet
     ELSE IF res.err THEN
       [outcome |-> "rejected",
        log |-> <<[kind |-> "error", arg |-> parsed.url.Host]>>,
        handed |-> <<parsed.url>>] @@ quiet
     ELSE IF ~IsValid(res.remote) THEN
       [outcome |-> "panic",
        log |-> <<[kind |-> "error", arg |-> parsed.url.Path]>>,
        handed |-> <<parsed.url>>] @@ quiet
     ELSE
       LET g == getRemoteRepository(res.remote, doUpdate, existing, statErr,
                                    cloneResult, tag)
       IN [outcome |-> IF g.panic THEN "panic" ELSE "got", log |-> g.log,
           handed |-> <<parsed.url>>, calls |-> g.calls,
           existing |-> g.existing, built |-> g.built]

\* lines 278-294 (starred) and 337-353 (pocket): one item of the batch.
\* Every repository of a starred page is taken to carry its HTMLURL.
ItemOutcome(ref, doUpdate, cloneResult, tag) ==
  LET parsed == UrlParse(ref)
      res == NewRemoteRepository(parsed.url)
      quiet == [calls |-> <<>>, existing |-> existing, built |-> <<>>]
  IN IF parsed.err THEN
       [outcome |-> "unparseable", log |-> <<[kind |-> "error", arg |-> ref]>>,
        handed |-> <<>>] @@ quiet
     ELSE IF res.err THEN
       [outcome |-> "rejected",
        log |-> <<[kind |-> "error", arg |-> parsed.url.Host]>>,
        handed |-> <<parsed.url>>] @@ quiet
     ELSE IF ~IsValid(res.remote) THEN
       [outcome |-> "invalid",
        log |-> <<[kind |-> "error", arg |-> parsed.url.Path]>>,
        handed |-> <<parsed.url>>] @@ quiet
     ELSE
       LET g == getRemoteRepository(res.remote, doUpdate, existing, statErr,
                                    cloneResult, tag)
       IN [outcome |-> IF g.panic THEN "panic" ELSE "got", log |-> g.log,
           handed |-> <<parsed.url>>, calls |-> g.calls,
           existing |-> g.existing, built |-> g.built]

\* the body of both loops: the next item in hand is handled; a panic ends
\* the process
HandleNextItem ==
  /\ pc = "items"
  /\ idx < Len(items)
  /\ \E cloneResult \in CloneResults :
       \E o \in {ItemOutcome(items[idx + 1], flags.update, cloneResult,
                              <<page, idx + 1>>)} :
          /\ calls' = calls \o o.calls
          /\ log' = log \o o.log
          /\ existing' = o.existing
          /\ handed' = handed \o o.handed
          /\ built' = built \o o.built
          /\ handled' = Append(handled, [page |-> page, index |-> idx + 1,
                                         ref |-> items[idx + 1],
                                         outcome |-> o.outcome])
          /\ pc' = IF o.outcome = "panic" THEN "done" ELSE "items"
          /\ status' = IF o.outcome = "panic" THEN "panic" ELSE status
  /\ idx' = idx + 1
  /\ UNCHANGED <<cmd, argFirst, flags, shellEnv, localRepos, statErr,
                 numPages, run, out, chdirTo, execd, page, lastPage, items>>

\* lines 259-268
StarredStart ==
  /\ cmd = "starred"
  /\ pc = "start"
  /\ IF argFirst = <<>>
       THEN pc' = "done" /\ status' = "exit1"
       ELSE pc' = "page" /\ status' = status
  /\ UNCHANGED <<cmd, argFirst, flags, shellEnv, localRepos, existing,
                 statErr, numPages, run, calls, log, out, handed, built,
                 chdirTo, execd, page, lastPage, items, idx, handled>>

\* what the source answers to a request for page p: the repositories of the
\* page (none beyond the last page) and the last page it reports
StarredResponses(p) ==
  {[repositories |-> r, LastPage |-> lp] :
     r \in (IF p <= numPages THEN PageContents ELSE {<<>>}),
     lp \in {0, p - 1, p, numPages}}

\* lines 270-276: the next page is requested; an error ends the process
StarredFetch ==
  /\ cmd = "starred"
  /\ pc = "page"
  /\ page < MaxPages + 1
  /\ page' = page + 1
  /\ \/ /\ pc' = "done"
        /\ status' = "exit1"
        /\ items' = <<>>
        /\ idx' = 0
        /\ UNCHANGED <<lastPage, log>>
     \/ \E res \in StarredResponses(page + 1) :
          /\ items' = res.repositories
          /\ lastPage' = res.LastPage
          /\ idx' = 0
          /\ log' = Append(log, [kind |-> "page", arg |-> <<>>])
          /\ pc' = "items"
          /\ status' = status
  /\ UNCHANGED <<cmd, argFirst, flags, shellEnv, localRepos, existing,
                 statErr, numPages, run, calls, out, handed, built, chdirTo,
                 execd, handled>>

\* lines 277-295
StarredItem == cmd = "starred" /\ HandleNextItem

\* lines 297-299
StarredBreak(p, lp) == p = lp

StarredPageEnd ==
  /\ cmd = "starred"
  /\ pc = "items"
  /\ idx = Len(items)
  /\ IF StarredBreak(page, lastPage)
       THEN pc' = "done" /\ status' = "ok"
       ELSE pc' = "page" /\ status' = status
  /\ UNCHANGED <<cmd, argFirst, flags, shellEnv, localRepos, existing,
                 statErr, numPages, run, calls, log, out, handed, built,
                 chdirTo, execd, page, lastPage, items, idx, handled>>

\* lines 303-334: the access token is found or obtained and the entries are
\* retrieved; a failure of either ends the process
PocketRetrieve ==
  /\ cmd = "pocket"
  /\ pc = "start"
  /\ \/ /\ pc' = "done"
        /\ status' \in {"exit1", "panic"}
        /\ UNCHANGED <<items, idx>>
     \/ /\ items' \in PocketLists
        /\ idx' = 0
        /\ pc' = "items"
        /\ status' = status
  /\ UNCHANGED <<cmd, argFirst, flags, shellEnv, localRepos, existing,
                 statErr, numPages, run, calls, log, out, handed, built,
                 chdirTo, execd, page, lastPage, handled>>

\* lines 336-354
PocketItem == cmd = "pocket" /\ HandleNextItem

PocketEnd ==
  /\ cmd = "pocket"
  /\ pc = "items"
  /\ idx = Len(items)
  /\ pc' = "done"
  /\ status' = "ok"
  /\ UNCHANGED <<cmd, argFirst, flags, shellEnv, localRepos, existing,
                 statErr, numPages, run, calls, log, out, handed, built,
                 chdirTo, execd, page, lastPage, items, idx, handled>>

InitBatch ==
  /\ cmd \in {"starred", "pocket"}
  /\ argFirst \in IF cmd = "starred" THEN {<<>>, <<"u">>} ELSE {<<>>}
  /\ flags \in {[NoFlags EXCEPT !.update = u] : u \in BOOLEAN}
  /\ existing \in SUBSET {PathAB, PathBA}
  /\ statErr \in SUBSET {PathAB, PathBA}
  /\ shellEnv = <<>>
  /\ localRepos = <<>>
  /\ numPages \in IF cmd = "starred" THEN 1..MaxPages ELSE {0}
  /\ pc = "start"
  /\ status = "running"
  /\ run = 1
  /\ calls = <<>>
  /\ log = <<>>
  /\ out = <<>>
  /\ handed = <<>>
  /\ built = <<>>
  /\ chdirTo = <<>>
  /\ execd = <<>>
  /\ page = 0
  /\ lastPage = 0
  /\ items = <<>>
  /\ idx = 0
  /\ handled = <<>>

NextBatch ==
  \/ StarredStart
  \/ StarredFetch
  \/ StarredItem
  \/ StarredPageEnd
  \/ PocketRetrieve
  \/ PocketItem
  \/ PocketEnd

SpecBatch == InitBatch /\ [][NextBatch]_vars

(***************************************************************************)
(* The commands that reach getRemoteRepository.                            *)
(***************************************************************************)
InitFetching == InitGet \/ InitBatch

NextFetching == NextGet \/ NextBatch

SpecFetching == InitFetching /\ [][NextFetching]_vars

(***************************************************************************)
(* The whole program.                                                      *)
(***************************************************************************)
Init == InitGet \/ InitList \/ InitLook \/ InitBatch

Next == NextGet \/ NextList \/ NextLook \/ NextBatch

Spec == Init /\ [][Next]_vars

(***************************************************************************)
(* Properties of the batch commands.                                       *)
(***************************************************************************)
Batch == cmd \in {"starred", "pocket"}

\* the reference does not parse, or the resolver rejects it, or the remote
\* is not a valid repository
InvalidItem(ref) ==
  \/ UrlParse(ref).err
  \/ NewRemoteRepository(UrlParse(ref).url).err
  \/ ~IsValid(NewRemoteRepository(UrlParse(ref).url).remote)

\* the same of a reference given to get, which defaults to GitHub first
InvalidGetRef(ref) ==
  \/ UrlParse(ref).err
  \/ DefaultToGitHub(UrlParse(ref).url).panic
  \/ NewRemoteRepository(DefaultToGitHub(UrlParse(ref).url).url).err
  \/ ~IsValid(NewRemoteRepository(DefaultToGitHub(UrlParse(ref).url).url).remote)

\* items are handled one at a time in source order
HandledInOrder ==
  Batch =>
    /\ \A k \in 1..Len(handled) :
         /\ handled[k].page <= page
         /\ k > 1 => \/ /\ handled[k].page = handled[k - 1].page
                        /\ handled[k].index = handled[k - 1].index + 1
                     \/ /\ handled[k].page > handled[k - 1].page
                        /\ handled[k].index = 1
    /\ \A k \in 1..Len(handled) :
         handled[k].page = page =>
           /\ handled[k].index <= idx
           /\ handled[k].ref = items[handled[k].index]
    /\ Cardinality({k \in 1..Len(handled) : handled[k].page = page}) = idx
    /\ cmd = "pocket" /\ pc = "done" /\ status = "ok" => idx = Len(items)

\* an invalid item is logged and skipped, and the loop goes on
InvalidItemSkipped ==
  (Batch /\ pc = "items" /\ idx < Len(items) /\ InvalidItem(items[idx + 1]))
  => /\ calls' = calls
     /\ existing' = existing
     /\ Len(log') = Len(log) + 1
     /\ log'[Len(log')].kind = "error"
     /\ idx' = idx + 1
     /\ pc' = "items"
     /\ status' = status
     /\ items' = items

\* get with an invalid reference fails and calls no VCS
InvalidGetFails ==
  (cmd = "get" /\ pc = "done" /\ run = 1 /\ argFirst # <<>>
   /\ InvalidGetRef(argFirst))
  => status \in {"exit1", "panic"} /\ calls = <<>>

\* C6: a batch handles its items one at a time in source order; an item
\* that does not parse, that the resolver rejects or that is not valid is
\* logged and skipped without clone or update and the later items are still
\* handled; get with such a reference fails without clone or update.
C6_InvalidItemAbortsItemOnly ==
  /\ []HandledInOrder
  /\ [][InvalidItemSkipped]_vars
  /\ []InvalidGetFails

\* pocket skipped an invalid first item and got the second
C6_Witness ==
  /\ cmd = "pocket" /\ pc = "done" /\ status = "ok"
  /\ Len(handled) = 2
  /\ handled[1].outcome \in {"unparseable", "rejected", "invalid"}
  /\ handled[2].outcome = "got"
  /\ Len(calls) = 1 /\ calls[1].tag = <<0, 2>>

\* C9: when os.Stat of the local path fails other than with "does not
\* exist", getRemoteRepository invokes neither clone nor update and the
\* process ends in a panic; in a batch no later item is handled.
C9_StatErrorIsFatal ==
  /\ [][GetReachedStat /\ StatTarget \in statErr =>
          /\ calls' = calls
          /\ existing' = existing
          /\ status' = "panic"
          /\ pc' = "done"]_vars
  /\ [][Batch /\ status = "panic" =>
          /\ handled' = handled
          /\ calls' = calls
          /\ page' = page
          /\ pc' = "done"]_vars

\* a batch panicked on an item and left a later item unhandled
C9_Witness ==
  /\ Batch /\ status = "panic" /\ pc = "done"
  /\ Len(handled) >= 1
  /\ handled[Len(handled)].outcome = "panic"
  /\ built[Len(built)].FullPath \in statErr
  /\ idx < Len(items)
  /\ calls = <<>>

\* C10: the page loop of starred requests the pages the source exposes, in
\* order and once each, and stops after the last of them, whatever last page
\* the responses report.
C10_StarredStopsAfterLastPage ==
  cmd = "starred" => page <= numPages
====
